---------------------------- MODULE Spec2Model ----------------------------
(***************************************************************************)
(* The city-electricity dashboard: the process-wide query client           *)
(* (lib/queryClient.ts), the components that declare queries on it         *)
(* (Header, Dashboard, ModelReport, HistoricalAnalysis) and the derived    *)
(* views they compute from the query results.                              *)
(*                                                                         *)
(* Spec    the query cache, the network and the mounted components as a    *)
(*         state machine; one action per event (navigation, button press,  *)
(*         date selection, poll timer, window focus, response, cache gc).  *)
(* SpecFn  the pure functions (getQueryFn and the URL it requests,         *)
(*         pagination, chart series, table rows, timestamps, panels,       *)
(*         alert indicators) applied to inputs drawn from bounded sets.    *)
(* SpecHistorical                                                          *)
(*         HistoricalAnalysis while mounted, with results of 0, 5 or 25    *)
(*         rows and the Previous/Next buttons of its table.                *)
(***************************************************************************)
EXTENDS Integers, Sequences, FiniteSets, TLC

VARIABLES
    route,        \* the page the router has mounted ("none" before the app renders)
    startDate,    \* HistoricalAnalysis: useState startDate
    endDate,      \* HistoricalAnalysis: useState endDate
    shouldFetch,  \* HistoricalAnalysis: useState shouldFetch
    currentPage,  \* HistoricalAnalysis: useState currentPage
    cache,        \* query cache: query key -> query state
    sent,         \* network: query key -> number of HTTP GETs sent by the last step
    fnArgs,       \* SpecFn: the call under evaluation
    fnRet         \* SpecFn: the results so far (<<>> until the call has run)

vars == <<route, startDate, endDate, shouldFetch, currentPage, cache, sent, fnArgs, fnRet>>

appVars == <<route, startDate, endDate, shouldFetch, currentPage, cache, sent>>
fnVars == <<fnArgs, fnRet>>

-----------------------------------------------------------------------------
(* lib/queryClient.ts: throwIfResNotOk, getQueryFn *)

Undefined == "undefined"
Null == "null"

\* Response bodies the model's backend sends, as text
Bodies == {"", "Internal Server Error", "null", "{\"ok\":true}"}

\* Response.statusText: the reason phrase of the status line (HTTP/1.1), or
\* nothing (HTTP/2 has none)
ReasonPhrase(status) ==
    IF status = 401 THEN "Unauthorized"
    ELSE IF status = 404 THEN "Not Found"
    ELSE IF status = 500 THEN "Internal Server Error"
    ELSE IF status = 300 THEN "Multiple Choices"
    ELSE IF status = 201 THEN "Created"
    ELSE "OK"
StatusTexts(status) == {"", ReasonPhrase(status)}

\* Bodies of the historical endpoint: a JSON array of 0, 5 or 25 rows
HistoricalBodies == {"[]", "[5 rows]", "[25 rows]"}

\* The number of rows of a parsed historical body
RowCount(data) ==
    IF data = "[5 rows]" THEN 5 ELSE IF data = "[25 rows]" THEN 25 ELSE 0

\* JSON.parse on the bodies above: the parsed value (an array is named by its
\* text), or a SyntaxError
JsonValid(body) == body \in {"null", "{\"ok\":true}"} \cup HistoricalBodies
JsonParse(body) ==
    IF body = "null" THEN Null
    ELSE IF body = "{\"ok\":true}" THEN "ok:true"
    ELSE IF body \in HistoricalBodies THEN body
    ELSE "SyntaxError"

\* Response.ok
ResOk(res) == res.status >= 200 /\ res.status <= 299

\* How an async function ends: it returns a value, or throws an error
Returned(v) == [kind |-> "return", value |-> v, error |-> "", message |-> ""]
Thrown(name, msg) == [kind |-> "throw", value |-> Undefined, error |-> name, message |-> msg]

\* throwIfResNotOk without the statusText fallback for an empty body
throwIfResNotOk_BodyOnly(res) ==
    IF ~ResOk(res)
    THEN Thrown("Error", ToString(res.status) \o ": " \o res.body)
    ELSE Returned(Undefined)

\* throwIfResNotOk(res): returns nothing, or throws the Error
throwIfResNotOk(res) ==
    IF ~ResOk(res)
    THEN LET text == IF res.body # "" THEN res.body ELSE res.statusText
         IN  Thrown("Error", ToString(res.status) \o ": " \o text)
    ELSE Returned(Undefined)

\* getQueryFnRes with returnNull applied to every refused request
getQueryFnRes_NullOnAnyError(unauthorizedBehavior, res) ==
    IF unauthorizedBehavior = "returnNull" /\ ~ResOk(res)
    THEN Returned(Null)
    ELSE IF throwIfResNotOk(res).kind = "throw"
    THEN throwIfResNotOk(res)
    ELSE IF JsonValid(res.body)
    THEN Returned(JsonParse(res.body))
    ELSE Thrown("SyntaxError", "Unexpected end of JSON input")

\* getQueryFn({on401})(ctx) once fetch(url) has resolved to res
getQueryFnRes(unauthorizedBehavior, res) ==
    IF unauthorizedBehavior = "returnNull" /\ res.status = 401
    THEN Returned(Null)
    ELSE IF throwIfResNotOk(res).kind = "throw"
    THEN throwIfResNotOk(res)
    ELSE IF JsonValid(res.body)
    THEN Returned(JsonParse(res.body))
    ELSE Thrown("SyntaxError", "Unexpected end of JSON input")

\* What fetch(url) settles to: a Response, or a rejection (transport failure)
Response(status, body, statusText) ==
    [failed |-> FALSE, status |-> status, body |-> body, statusText |-> statusText]
NetworkFailure == [failed |-> TRUE, status |-> 0, body |-> "", statusText |-> ""]

\* getQueryFn({on401})(ctx) for every way the network can answer
getQueryFn(unauthorizedBehavior, answer) ==
    IF answer.failed
    THEN Thrown("TypeError", "Failed to fetch")
    ELSE getQueryFnRes(unauthorizedBehavior, answer)

-----------------------------------------------------------------------------
(* lib/queryClient.ts: the process-wide queryClient and its default options *)

on401 == "throw"
refetchInterval == 0   \* false: no polling
refetchOnWindowFocus_True == TRUE
refetchOnWindowFocus == FALSE
staleTime == "Infinity"
retry_True == TRUE
retry == FALSE

\* Header and Dashboard poll the alerts feed (milliseconds)
AlertsRefetchInterval == 60000

-----------------------------------------------------------------------------
(* Query keys *)

ForecastKey == "/api/v1/forecast/hourly"
AlertsKey == "/api/v1/alerts/check"
PerformanceKey == "/api/v1/model/performance"

\* The dates the calendars offer (as toISOString().split('T')[0] prints them)
StartDates == {"2021-08-01", "2021-08-02"}
EndDates == {"2021-08-17"}

\* HistoricalAnalysis.buildHistoricalUrl
buildHistoricalUrl(start, end) ==
    IF start = Undefined \/ end = Undefined
    THEN "/api/v1/data/historical"
    ELSE "/api/v1/data/historical?start=" \o start \o "&end=" \o end

HistoricalKeys ==
    {buildHistoricalUrl(s, e) : s \in StartDates \cup {Undefined},
                                e \in EndDates \cup {Undefined}}

Keys == {ForecastKey, AlertsKey, PerformanceKey} \cup HistoricalKeys

\* Keys that more than one component declares
SharedKeys == {AlertsKey, PerformanceKey}

-----------------------------------------------------------------------------
(* The query library's per-query state, as the components read it *)

\* A query nobody has fetched yet
InitialQuery ==
    [status |-> "pending", fetchStatus |-> "idle", data |-> Undefined,
     fetchFailureCount |-> 0]

isLoading(q) == q.fetchStatus = "fetching" /\ q.status = "pending"
isError(q) == q.status = "error"

\* Query.isStaleByTime under the client's staleTime
IsStaleByTime(q) == q.data = Undefined \/ staleTime # "Infinity"

\* Query.fetch that starts a fetch whether or not one is in flight
Fetch_NoDedup(q, cancelRefetch) ==
    [state |-> [q EXCEPT !.fetchStatus = "fetching",
                         !.fetchFailureCount = 0,
                         !.status = IF q.data = Undefined
                                    THEN "pending" ELSE q.status],
     issued |-> 1]

\* Query.fetch: join the fetch in flight, or cancel it and start over
\* (refetch() of a query that has data), or start one; issued is the number
\* of HTTP GETs this sends.  A cancelled fetch is dropped without an error;
\* its GET is not aborted (getQueryFn never reads the abort signal) and its
\* answer is ignored.
Fetch(q, cancelRefetch) ==
    IF q.fetchStatus # "idle"
    THEN IF q.data # Undefined /\ cancelRefetch
         THEN [state |-> [q EXCEPT !.fetchFailureCount = 0], issued |-> 1]
         ELSE [state |-> q, issued |-> 0]
    ELSE [state |-> [q EXCEPT !.fetchStatus = "fetching",
                               !.fetchFailureCount = 0,
                               !.status = IF q.data = Undefined
                                          THEN "pending" ELSE q.status],
          issued |-> 1]

\* n observers asking for the same query in one step, one after the other
RECURSIVE FetchTimes(_, _)
FetchTimes(q, n) ==
    IF n = 0 THEN [state |-> q, issued |-> 0]
    ELSE LET first == Fetch(q, FALSE)
             rest == FetchTimes(first.state, n - 1)
         IN  [state |-> rest.state, issued |-> first.issued + rest.issued]

\* The retryer: whether a failed attempt is followed by another one
ShouldRetry(failureCount) == retry # FALSE

\* The outcome of the query function arrives at the query; issued is the
\* number of HTTP GETs a retry sends
Settle(q, outcome) ==
    IF outcome.kind = "return"
    THEN [state |-> [status |-> "success", fetchStatus |-> "idle",
                     data |-> outcome.value, fetchFailureCount |-> 0],
          issued |-> 0]
    ELSE IF ShouldRetry(q.fetchFailureCount)
    THEN [state |-> [q EXCEPT !.fetchFailureCount = @ + 1], issued |-> 1]
    ELSE [state |-> [q EXCEPT !.status = "error", !.fetchStatus = "idle",
                              !.fetchFailureCount = @ + 1],
          issued |-> 0]

-----------------------------------------------------------------------------
(* The components' useQuery declarations *)

Routes == {"/", "/historical", "/model-report"}

Observer(component, key, enabled, interval) ==
    [component |-> component, queryKey |-> key,
     enabled |-> enabled, refetchInterval |-> interval]

HistoricalEnabled(flag, start, end) ==
    flag /\ start # Undefined /\ end # Undefined

\* The observers mounted on page r with HistoricalAnalysis in the given state
Mounted(r, flag, start, end) ==
    (IF r = "none" THEN {}
     ELSE {Observer("Header", AlertsKey, TRUE, AlertsRefetchInterval)})
    \cup
    (IF r = "/"
     THEN {Observer("Dashboard.forecast", ForecastKey, TRUE, refetchInterval),
           Observer("Dashboard.alerts", AlertsKey, TRUE, AlertsRefetchInterval),
           Observer("Dashboard.performance", PerformanceKey, TRUE, refetchInterval)}
     ELSE IF r = "/model-report"
     THEN {Observer("ModelReport", PerformanceKey, TRUE, refetchInterval)}
     ELSE IF r = "/historical"
     THEN {Observer("HistoricalAnalysis", buildHistoricalUrl(start, end),
                    HistoricalEnabled(flag, start, end), refetchInterval)}
     ELSE {})

MountedNow == Mounted(route, shouldFetch, startDate, endDate)

ObserversOf(k) == {o \in MountedNow : o.queryKey = k}

\* QueryObserver: shouldFetchOnMount (refetchOnMount and retryOnMount default true)
ShouldFetchOnMount(q, o) == o.enabled /\ IsStaleByTime(q)

\* QueryObserver: shouldFetchOptionally, on a change of the observer's options
ShouldFetchOptionally(q, queryChanged, o, prevEnabled) ==
    (queryChanged \/ ~prevEnabled) /\ o.enabled /\ IsStaleByTime(q)

\* QueryObserver: shouldFetchOnWindowFocus
ShouldFetchOnWindowFocus(q, o) ==
    o.enabled /\ refetchOnWindowFocus # FALSE /\ IsStaleByTime(q)

HistoricalKey == buildHistoricalUrl(startDate, endDate)

-----------------------------------------------------------------------------
(* Spec: the application as a state machine *)

\* What the model's backend answers to a GET
Answers ==
    {Response(200, "{\"ok\":true}", ""),
     Response(401, "", "Unauthorized"),
     Response(500, "Internal Server Error", ""),
     NetworkFailure}

NoneSent == [k \in Keys |-> 0]

Init ==
    /\ route = "none"
    /\ startDate = "2021-08-01"
    /\ endDate = "2021-08-17"
    /\ shouldFetch = FALSE
    /\ currentPage = 1
    /\ cache = [k \in Keys |-> InitialQuery]
    /\ sent = NoneSent
    /\ fnArgs = [fn |-> "none"]
    /\ fnRet = <<>>

\* The network takes the GETs of this step
Send(issued) == sent' = issued

\* The router mounts page r (the first time, the shell and its Header too);
\* the page left is unmounted and HistoricalAnalysis starts from its useState
\* defaults.
Navigate(r) ==
    /\ r # route
    /\ LET after == Mounted(r, FALSE, "2021-08-01", "2021-08-17")
           new == {o \in after : o.component \notin {m.component : m \in MountedNow}}
           asking(k) == {o \in new : o.queryKey = k /\ ShouldFetchOnMount(cache[k], o)}
           fetched == [k \in Keys |-> FetchTimes(cache[k], Cardinality(asking(k)))]
       IN  /\ cache' = [k \in Keys |-> fetched[k].state]
           /\ Send([k \in Keys |-> fetched[k].issued])
    /\ route' = r
    /\ startDate' = "2021-08-01"
    /\ endDate' = "2021-08-17"
    /\ shouldFetch' = FALSE
    /\ currentPage' = 1
    /\ UNCHANGED fnVars

\* The observer of HistoricalAnalysis after a render that changed its options
HistoricalRerender(q0, flag, start, end, prevKey, prevEnabled) ==
    LET key == buildHistoricalUrl(start, end)
        o == Observer("HistoricalAnalysis", key,
                      HistoricalEnabled(flag, start, end), refetchInterval)
    IN  IF ShouldFetchOptionally(q0, key # prevKey, o, prevEnabled)
        THEN Fetch(q0, FALSE)
        ELSE [state |-> q0, issued |-> 0]

\* A calendar's onSelect: a day, or undefined when the selected day is clicked again
SetDates(start, end) ==
    /\ route = "/historical"
    /\ LET key == buildHistoricalUrl(start, end)
           r == HistoricalRerender(cache[key], shouldFetch, start, end, HistoricalKey,
                                   HistoricalEnabled(shouldFetch, startDate, endDate))
       IN  /\ cache' = [cache EXCEPT ![key] = r.state]
           /\ Send([NoneSent EXCEPT ![key] = r.issued])
    /\ startDate' = start
    /\ endDate' = end
    /\ UNCHANGED <<route, shouldFetch, currentPage, fnVars>>

setStartDate(d) == d # startDate /\ SetDates(d, endDate)

setEndDate(d) == d # endDate /\ SetDates(startDate, d)

\* handleRunAnalysis without the refetch() call: only the flag is set
handleRunAnalysis_FlagOnly ==
    /\ route = "/historical"
    /\ startDate # Undefined /\ endDate # Undefined
    /\ LET key == HistoricalKey
           rendered == HistoricalRerender(cache[key], TRUE, startDate, endDate, key,
                                          HistoricalEnabled(shouldFetch, startDate, endDate))
       IN  /\ cache' = [cache EXCEPT ![key] = rendered.state]
           /\ Send([NoneSent EXCEPT ![key] = rendered.issued])
    /\ shouldFetch' = TRUE
    /\ UNCHANGED <<route, startDate, endDate, currentPage, fnVars>>

\* The "Run Analysis" button (disabled unless both dates are set):
\* setShouldFetch(true); refetch(); then the render with the new flag
handleRunAnalysis ==
    /\ route = "/historical"
    /\ startDate # Undefined /\ endDate # Undefined
    /\ LET key == HistoricalKey
           refetched == Fetch(cache[key], TRUE)
           rendered == HistoricalRerender(refetched.state, TRUE, startDate, endDate, key,
                                          HistoricalEnabled(shouldFetch, startDate, endDate))
       IN  /\ cache' = [cache EXCEPT ![key] = rendered.state]
           /\ Send([NoneSent EXCEPT ![key] = refetched.issued + rendered.issued])
    /\ shouldFetch' = TRUE
    /\ UNCHANGED <<route, startDate, endDate, currentPage, fnVars>>

\* An observer's refetchInterval timer fires; it fetches only in a focused window
RefetchIntervalTick(o, focused) ==
    /\ o \in MountedNow
    /\ o.enabled /\ o.refetchInterval > 0
    /\ LET r == IF focused THEN Fetch(cache[o.queryKey], FALSE)
                ELSE [state |-> cache[o.queryKey], issued |-> 0]
       IN  /\ cache' = [cache EXCEPT ![o.queryKey] = r.state]
           /\ Send([NoneSent EXCEPT ![o.queryKey] = r.issued])
    /\ UNCHANGED <<route, startDate, endDate, shouldFetch, currentPage, fnVars>>

\* The window regains focus: every mounted observer is asked whether to refetch
WindowFocus ==
    /\ route # "none"
    /\ LET asking(k) == {o \in ObserversOf(k) : ShouldFetchOnWindowFocus(cache[k], o)}
           fetched == [k \in Keys |-> FetchTimes(cache[k], Cardinality(asking(k)))]
       IN  /\ cache' = [k \in Keys |-> fetched[k].state]
           /\ Send([k \in Keys |-> fetched[k].issued])
    /\ UNCHANGED <<route, startDate, endDate, shouldFetch, currentPage, fnVars>>

\* The answer to the GET the query is waiting for arrives
Respond(k, answer) ==
    /\ cache[k].fetchStatus = "fetching"
    /\ LET settled == Settle(cache[k], getQueryFn(on401, answer))
       IN  /\ cache' = [cache EXCEPT ![k] = settled.state]
           /\ Send([NoneSent EXCEPT ![k] = settled.issued])
    /\ UNCHANGED <<route, startDate, endDate, shouldFetch, currentPage, fnVars>>

\* The cache drops a query that has no observer and no fetch (gcTime elapsed)
GarbageCollect(k) ==
    /\ ObserversOf(k) = {}
    /\ cache[k].fetchStatus = "idle"
    /\ cache[k] # InitialQuery
    /\ cache' = [cache EXCEPT ![k] = InitialQuery]
    /\ sent' = NoneSent
    /\ UNCHANGED <<route, startDate, endDate, shouldFetch, currentPage, fnVars>>

Next ==
    \/ \E r \in Routes : Navigate(r)
    \/ \E d \in StartDates \cup {Undefined} : setStartDate(d)
    \/ \E d \in EndDates \cup {Undefined} : setEndDate(d)
    \/ handleRunAnalysis
    \/ \E o \in MountedNow, focused \in BOOLEAN : RefetchIntervalTick(o, focused)
    \/ WindowFocus
    \/ \E k \in Keys, answer \in Answers : Respond(k, answer)
    \/ \E k \in Keys : GarbageCollect(k)

Spec == Init /\ [][Next]_vars

-----------------------------------------------------------------------------
(* JavaScript values the views compute with *)

JsUndefined == [type |-> "undefined", val |-> 0]
JsNull == [type |-> "null", val |-> 0]
\* A number, in hundredths: JsNumber(1234) is 12.34
JsNumber(n) == [type |-> "number", val |-> n]
\* The ISO timestamp string "2021-08-<day>T<hour>:00:00"
JsTime(day, hour) == [type |-> "string", day |-> day, hour |-> hour]
JsArray(items) == [type |-> "array", items |-> items]

\* The truthiness "v ? a : b" tests
Truthy(v) ==
    \/ v.type = "number" /\ v.val # 0
    \/ v.type \in {"string", "array", "object"}

\* Math.ceil(a / b) for a >= 0, b > 0
MathCeilDiv(a, b) == IF a % b = 0 THEN a \div b ELSE (a \div b) + 1

\* Math.round(x * 10) / 10, x in hundredths (Math.round rounds halves up)
RoundToTenth(n) == ((n + 5) \div 10) * 10

Pad2(n) == IF n < 10 THEN "0" \o ToString(n) ELSE ToString(n)

\* date-fns format(new Date(t), 'MM/dd')
FormatMMdd(t) == "08/" \o Pad2(t.day)

\* Array.prototype.slice(start, end) on a sequence
ArraySlice(items, start, end) ==
    LET len == Len(items)
        from == IF start < 0 THEN (IF len + start < 0 THEN 0 ELSE len + start)
                ELSE (IF start > len THEN len ELSE start)
        to == IF end < 0 THEN (IF len + end < 0 THEN 0 ELSE len + end)
              ELSE (IF end > len THEN len ELSE end)
    IN  SubSeq(items, from + 1, to)

-----------------------------------------------------------------------------
(* HistoricalAnalysis: the chart series and the page of the table *)

itemsPerPage == 10

\* totalPages
totalPages(historicalData) ==
    IF Truthy(historicalData)
    THEN MathCeilDiv(Len(historicalData.items), itemsPerPage)
    ELSE 0

\* paginatedData that starts each page one page late
paginatedData_PageLate(historicalData, page) ==
    IF historicalData.type \in {"undefined", "null"}
    THEN JsUndefined
    ELSE JsArray(ArraySlice(historicalData.items,
                            page * itemsPerPage,
                            (page + 1) * itemsPerPage))

\* paginatedData = historicalData?.slice(...)
paginatedData(historicalData, page) ==
    IF historicalData.type \in {"undefined", "null"}
    THEN JsUndefined
    ELSE JsArray(ArraySlice(historicalData.items,
                            (page - 1) * itemsPerPage,
                            page * itemsPerPage))

\* The object chartData's map callback builds from one row
HistoricalChartPoint(point) ==
    [time |-> IF Truthy(point._time) THEN FormatMMdd(point._time) ELSE "",
     power |-> IF Truthy(point.Phase3_power)
               THEN JsNumber(RoundToTenth(point.Phase3_power.val))
               ELSE JsNull,
     fullTime |-> point._time]

\* .filter(point => point.power !== null)
RECURSIVE FilterChartPoints(_)
FilterChartPoints(points) ==
    IF Len(points) = 0 THEN <<>>
    ELSE (IF Head(points).power.type # "null" THEN <<Head(points)>> ELSE <<>>)
         \o FilterChartPoints(Tail(points))

\* chartData whose filter drops nothing
chartData_NoFilter(historicalData) ==
    IF historicalData.type \in {"undefined", "null"}
    THEN JsUndefined
    ELSE JsArray([i \in 1..Len(historicalData.items) |->
                      HistoricalChartPoint(historicalData.items[i])])

\* chartData = historicalData?.map(...).filter(point => point.power !== null)
chartData(historicalData) ==
    IF historicalData.type \in {"undefined", "null"}
    THEN JsUndefined
    ELSE JsArray(FilterChartPoints([i \in 1..Len(historicalData.items) |->
                                        HistoricalChartPoint(historicalData.items[i])]))

-----------------------------------------------------------------------------
(* Header and Dashboard: what the alerts feed switches on *)

AlertLevels == {"info", "warning", "critical"}

\* Header: {hasCriticalAlerts && <span .../>}, alertsData an AlertsResponse
\* or undefined
hasCriticalAlerts(alertsData) ==
    /\ alertsData.type = "object" /\ "alerts" \in DOMAIN alertsData
    /\ \E i \in 1..Len(alertsData.alerts) : alertsData.alerts[i].level = "critical"

\* Dashboard: the "Peak Load Alert" entry of kpiCards
PeakLoadAlertCard(alertsData, alertsLoading) ==
    LET first == IF /\ alertsData.type = "object" /\ "alerts" \in DOMAIN alertsData
                    /\ Len(alertsData.alerts) > 0
                 THEN alertsData.alerts[1].level ELSE "undefined"
    IN  [value |-> IF first = "critical" THEN "Active" ELSE "Normal",
         isAlert |-> first = "critical",
         loading |-> alertsLoading]

\* Dashboard: what the alerts panel renders
AlertsPanel(alertsData, alertsLoading, alertsError) ==
    IF alertsLoading THEN "Skeleton"
    ELSE IF alertsError THEN "Unable to load alerts"
    ELSE IF /\ alertsData.type = "object" /\ "alerts" \in DOMAIN alertsData
            /\ Len(alertsData.alerts) > 0
    THEN "alerts list"
    ELSE "All Systems Normal"

-----------------------------------------------------------------------------
(* The per-row transforms: timestamps (date-fns format) and numeric cells *)

\* A timestamp string new Date() cannot parse, such as "not-a-date"
JsBadTime == [type |-> "string", day |-> 0, hour |-> 0]

\* The timestamps a row, a forecast point or an alert can carry
Timestamps == {JsTime(1, 0), JsTime(17, 23), JsUndefined, JsBadTime}

\* new Date(v) is an Invalid Date
IsInvalidDate(v) == v.type = "undefined" \/ (v.type = "string" /\ v.day = 0)

\* The text of a valid date in the patterns the pages use
FormatText(t, pattern) ==
    IF pattern = "MM/dd" THEN FormatMMdd(t)
    ELSE IF pattern = "HH:mm" THEN Pad2(t.hour) \o ":00"
    ELSE IF pattern = "yyyy-MM-dd HH:mm"
    THEN "2021-08-" \o Pad2(t.day) \o " " \o Pad2(t.hour) \o ":00"
    ELSE "Aug " \o Pad2(t.day) \o ", " \o Pad2(t.hour) \o ":00"

\* date-fns format(new Date(v), pattern): the text, or the RangeError format
\* throws when the date is invalid
format(v, pattern) ==
    IF IsInvalidDate(v)
    THEN Thrown("RangeError", "Invalid time value")
    ELSE Returned(FormatText(v, pattern))

\* HistoricalAnalysis chartData: time: point._time ? format(...) : ''
HistoricalChartLabel(t) == IF Truthy(t) THEN format(t, "MM/dd") ELSE Returned("")

\* The glyph a table cell shows for a missing value
Placeholder == "em-dash"

\* HistoricalAnalysis table: row._time ? format(...) : placeholder
TimestampCell(t) ==
    IF Truthy(t) THEN format(t, "yyyy-MM-dd HH:mm") ELSE Returned(Placeholder)

\* Dashboard chartData: time: format(new Date(point.timestamp), 'HH:mm')
ForecastChartLabel(t) == format(t, "HH:mm")

\* Dashboard alerts panel: {alert.timestamp && <p>{format(...)}</p>}
AlertTimestampLine(t) ==
    IF Truthy(t) THEN format(t, "MMM dd, HH:mm") ELSE Returned("")

\* Number.prototype.toFixed(digits) of n hundredths, n >= 0, digits in 1..3
ToFixed(n, digits) ==
    IF digits = 1
    THEN LET r == (n + 5) \div 10 IN ToString(r \div 10) \o "." \o ToString(r % 10)
    ELSE ToString(n \div 100) \o "." \o Pad2(n % 100)
         \o (IF digits = 3 THEN "0" ELSE "")

\* row.<field>?.toFixed(digits) ?? placeholder
NumericCell(v, digits) ==
    IF v.type \in {"undefined", "null"} THEN Placeholder ELSE ToFixed(v.val, digits)

\* The numeric columns of the table, in order, and their toFixed digits
NumericFields == <<"Phase3_power", "Phase3_voltage", "Phase3_frequency", "Phase3_pf">>
FieldDigits == <<2, 1, 2, 3>>

\* One <TableRow>: its five cells, or the error its rendering throws
RenderRow(row) ==
    LET timestamp == TimestampCell(row._time)
    IN  IF timestamp.kind = "throw" THEN timestamp
        ELSE Returned(<<timestamp.value>> \o
                      [i \in 1..4 |-> NumericCell(row[NumericFields[i]], FieldDigits[i])])

-----------------------------------------------------------------------------
(* The panels, rendered from whatever JSON value a query holds *)

\* An object that has none of the fields the page reads, such as {}
JsObject == [type |-> "object"]

\* obj.field: undefined when the object has no such field
Get(obj, field) == IF field \in DOMAIN obj THEN obj[field] ELSE JsUndefined

\* Dashboard kpiCards: performance ? `${performance.<field>.toFixed(2)}%` : placeholder
KpiPerformanceValue(performance, field) ==
    IF ~Truthy(performance) THEN Returned(Placeholder)
    ELSE IF Get(performance, field).type = "number"
    THEN Returned(ToFixed(Get(performance, field).val, 2) \o "%")
    ELSE Thrown("TypeError", "Cannot read properties of undefined (reading 'toFixed')")

\* ModelReport: what the performance card renders
ModelReportPanel(performance, loading, error) ==
    IF loading THEN Returned("Skeleton")
    ELSE IF error THEN Returned("Unable to load model performance data")
    ELSE IF Truthy(performance)
    THEN IF \A f \in {"xgboost_mape", "lstm_mape", "fusion_mape"} :
                Get(performance, f).type = "number"
         THEN Returned("metrics")
         ELSE Thrown("TypeError", "Cannot read properties of undefined (reading 'toFixed')")
    ELSE Returned("Unable to load performance metrics")

\* Dashboard: chartData = forecastData?.map(...), then the forecast panel
ForecastPanel(forecastData, loading, error) ==
    IF forecastData.type \notin {"undefined", "null", "array"}
    THEN Thrown("TypeError", "forecastData.map is not a function")
    ELSE IF /\ forecastData.type = "array"
            /\ \E i \in 1..Len(forecastData.items) :
                   ForecastChartLabel(Get(forecastData.items[i], "timestamp")).kind = "throw"
    THEN Thrown("RangeError", "Invalid time value")
    ELSE IF loading THEN Returned("Skeleton")
    ELSE IF error THEN Returned("Unable to load forecast data")
    ELSE IF forecastData.type = "array" /\ Len(forecastData.items) > 0
    THEN Returned("AreaChart")
    ELSE Returned("No forecast data available")

\* HistoricalAnalysis: chartData = historicalData?.map(...).filter(...), then
\* the chart panel
HistoricalChartPanel(historicalData, loading, error, flag) ==
    IF historicalData.type \notin {"undefined", "null", "array"}
    THEN Thrown("TypeError", "historicalData.map is not a function")
    ELSE IF /\ historicalData.type = "array"
            /\ \E i \in 1..Len(historicalData.items) :
                   HistoricalChartLabel(historicalData.items[i]._time).kind = "throw"
    THEN Thrown("RangeError", "Invalid time value")
    ELSE IF loading THEN Returned("Skeleton")
    ELSE IF error THEN Returned("Failed to load historical data")
    ELSE IF historicalData.type = "array" /\ Len(chartData(historicalData).items) > 0
    THEN Returned("LineChart")
    ELSE IF flag THEN Returned("No data available for selected range")
    ELSE Returned("Click \"Run Analysis\" to load data")

-----------------------------------------------------------------------------
(* Dashboard: the three queries and the slots rendered from them *)

\* Well-formed results of the three endpoints.  Spec records of a result only
\* that it arrived; the Dashboard renders these in its place.
SampleForecast ==
    JsArray(<<[timestamp |-> JsTime(1, 0), predicted_power |-> JsNumber(1234)]>>)
SampleAlerts ==
    [type |-> "object", alerts |-> <<[level |-> "critical", message |-> "Load alert"]>>]
SamplePerformance ==
    [type |-> "object", xgboost_mape |-> JsNumber(1520), lstm_mape |-> JsNumber(1210),
     fusion_mape |-> JsNumber(512)]

\* useQuery's data: undefined until a result has arrived
DataOf(q, result) == IF q.data = Undefined THEN JsUndefined ELSE result

\* A KPI card's content: {card.loading ? <Skeleton/> : card.value}
KpiCard(value, loading) == IF loading THEN Returned("Skeleton") ELSE value

\* The Dashboard with one loading flag shared by its three queries
Dashboard_SharedLoading(forecastQ, alertsQ, performanceQ) ==
    LET loading == isLoading(forecastQ) \/ isLoading(alertsQ) \/ isLoading(performanceQ)
        forecastData == DataOf(forecastQ, SampleForecast)
        alertsData == DataOf(alertsQ, SampleAlerts)
        performance == DataOf(performanceQ, SamplePerformance)
    IN  [forecast |-> ForecastPanel(forecastData, loading, isError(forecastQ)),
         alerts |-> <<Returned(AlertsPanel(alertsData, loading, isError(alertsQ))),
                      KpiCard(Returned(PeakLoadAlertCard(alertsData, loading).value),
                              loading)>>,
         performance |->
             [f \in {"fusion_mape", "xgboost_mape", "lstm_mape"} |->
                 KpiCard(KpiPerformanceValue(performance, f), loading)]]

\* Dashboard: what it renders for each of its three queries
Dashboard(forecastQ, alertsQ, performanceQ) ==
    LET forecastData == DataOf(forecastQ, SampleForecast)
        alertsData == DataOf(alertsQ, SampleAlerts)
        performance == DataOf(performanceQ, SamplePerformance)
    IN  [forecast |->
             ForecastPanel(forecastData, isLoading(forecastQ), isError(forecastQ)),
         alerts |->
             <<Returned(AlertsPanel(alertsData, isLoading(alertsQ), isError(alertsQ))),
               KpiCard(Returned(PeakLoadAlertCard(alertsData, isLoading(alertsQ)).value),
                       isLoading(alertsQ))>>,
         performance |->
             [f \in {"fusion_mape", "xgboost_mape", "lstm_mape"} |->
                 KpiCard(KpiPerformanceValue(performance, f), isLoading(performanceQ))]]

-----------------------------------------------------------------------------
(* getQueryFn: the URL requested for a query key.  A string is the sequence
   of its characters. *)

\* s.replace(/\/+$/, '')
RECURSIVE StripTrailing(_)
StripTrailing(s) ==
    IF Len(s) > 0 /\ s[Len(s)] = "/" THEN StripTrailing(SubSeq(s, 1, Len(s) - 1)) ELSE s

\* s.replace(/^\/+/, '')
RECURSIVE StripLeading(_)
StripLeading(s) ==
    IF Len(s) > 0 /\ Head(s) = "/" THEN StripLeading(Tail(s)) ELSE s

\* s.startsWith('/')
StartsWithSlash(s) == Len(s) > 0 /\ Head(s) = "/"

\* Array.prototype.join('/')
RECURSIVE Join(_)
Join(strings) ==
    IF Len(strings) = 0 THEN <<>>
    ELSE IF Len(strings) = 1 THEN strings[1]
    ELSE strings[1] \o <<"/">> \o Join(Tail(strings))

\* segments = queryKey.map(seg => String(seg).replace(/^\/+|\/+$/g, ''))
segments(queryKey) ==
    [i \in 1..Len(queryKey) |-> StripTrailing(StripLeading(queryKey[i]))]

\* path, as getQueryFn computes it from the query key
path(queryKey) ==
    IF Len(queryKey) = 1
    THEN IF ~StartsWithSlash(queryKey[1]) THEN <<"/">> \o queryKey[1] ELSE queryKey[1]
    ELSE <<"/">> \o Join(segments(queryKey))

\* baseUrl that keeps the trailing slashes of API_BASE_URL
baseUrl_Unstripped(API_BASE_URL) == API_BASE_URL

\* baseUrl = API_BASE_URL.replace(/\/+$/, '')
baseUrl(API_BASE_URL) == StripTrailing(API_BASE_URL)

\* url = baseUrl + path
url(API_BASE_URL, queryKey) == baseUrl(API_BASE_URL) \o path(queryKey)

-----------------------------------------------------------------------------
(* SpecFn: the pure functions, applied to inputs drawn from bounded sets *)

AppInit ==
    /\ route = "none"
    /\ startDate = "2021-08-01"
    /\ endDate = "2021-08-17"
    /\ shouldFetch = FALSE
    /\ currentPage = 1
    /\ cache = [k \in Keys |-> InitialQuery]
    /\ sent = NoneSent

\* The responses getQueryFn is applied to
FnStatuses == {200, 201, 299, 300, 401, 404, 500}
FnAnswers ==
    UNION {{Response(st, b, t) : b \in Bodies, t \in StatusTexts(st)} : st \in FnStatuses}
    \cup {NetworkFailure}

QueryFnCalls ==
    [fn : {"getQueryFn"}, on401 : {"returnNull", "throw"}, answer : FnAnswers]

\* One fetch of a query that has no data yet: the query function runs ...
CallQueryFn ==
    /\ fnArgs.fn = "getQueryFn"
    /\ fnRet = <<>>
    /\ fnRet' = <<getQueryFn(fnArgs.on401, fnArgs.answer)>>
    /\ UNCHANGED <<fnArgs, appVars>>

\* ... and its outcome arrives at the query
SettleQueryFn ==
    /\ fnArgs.fn = "getQueryFn"
    /\ Len(fnRet) = 1
    /\ fnRet' = Append(fnRet, Settle(Fetch(InitialQuery, FALSE).state, fnRet[1]).state)
    /\ UNCHANGED <<fnArgs, appVars>>

\* Bounds of the inputs
MaxRows == 25        \* rows of a historical result that is paginated
MaxPage == 4         \* currentPage
MaxChartRows == 3    \* rows of a historical result that is charted
MaxAlerts == 3       \* entries of an alerts response

\* The i-th row of a historical result, one row per hour from 2021-08-01
HistoricalRow(i, power) ==
    [_time |-> JsTime(1 + ((i - 1) \div 24), (i - 1) % 24),
     Phase3_power |-> power,
     Phase3_voltage |-> JsNumber(23010),
     Phase3_frequency |-> JsNumber(5000),
     Phase3_pf |-> JsNumber(95)]

PaginateCalls == [fn : {"paginate"}, rows : 0..MaxRows, currentPage : 1..MaxPage]

\* The table's page of a result of fnArgs.rows rows
CallPaginate ==
    /\ fnArgs.fn = "paginate"
    /\ fnRet = <<>>
    /\ LET historicalData ==
               JsArray([i \in 1..fnArgs.rows |-> HistoricalRow(i, JsNumber(100 * i))])
       IN  fnRet' = <<[totalPages |-> totalPages(historicalData),
                       paginatedData |-> paginatedData(historicalData, fnArgs.currentPage),
                       historicalData |-> historicalData]>>
    /\ UNCHANGED <<fnArgs, appVars>>

\* Phase3_power of a row: missing, zero, or a number
PowerValues == {JsUndefined, JsNull, JsNumber(0), JsNumber(4), JsNumber(1234)}

ChartCalls ==
    [fn : {"chartData"},
     powers : UNION {[1..n -> PowerValues] : n \in 0..MaxChartRows}]

\* The chart series of a result whose rows have the powers fnArgs.powers
CallChartData ==
    /\ fnArgs.fn = "chartData"
    /\ fnRet = <<>>
    /\ LET historicalData ==
               JsArray([i \in 1..Len(fnArgs.powers) |-> HistoricalRow(i, fnArgs.powers[i])])
       IN  fnRet' = <<[chartData |-> chartData(historicalData),
                       historicalData |-> historicalData]>>
    /\ UNCHANGED <<fnArgs, appVars>>

AlertsCalls ==
    [fn : {"alerts"},
     levels : UNION {[1..n -> AlertLevels] : n \in 0..MaxAlerts}]

\* Header and Dashboard render a successful alerts response
CallAlerts ==
    /\ fnArgs.fn = "alerts"
    /\ fnRet = <<>>
    /\ LET alertsData ==
               [type |-> "object",
                alerts |-> [i \in 1..Len(fnArgs.levels) |->
                               [level |-> fnArgs.levels[i], message |-> "Load alert"]]]
           q == [status |-> "success", fetchStatus |-> "idle"]
       IN  fnRet' = <<[bell |-> hasCriticalAlerts(alertsData),
                       card |-> PeakLoadAlertCard(alertsData, isLoading(q)),
                       panel |-> AlertsPanel(alertsData, isLoading(q), isError(q))]>>
    /\ UNCHANGED <<fnArgs, appVars>>

\* What a numeric field of a row can hold
FieldValues == {JsUndefined, JsNull, JsNumber(1234)}

TableRowCalls ==
    [fn : {"tableRow"},
     row : [_time : Timestamps,
            Phase3_power : FieldValues \cup {JsNumber(0)},
            Phase3_voltage : FieldValues,
            Phase3_frequency : FieldValues,
            Phase3_pf : FieldValues]]

\* The table renders the row fnArgs.row
CallRenderRow ==
    /\ fnArgs.fn = "tableRow"
    /\ fnRet = <<>>
    /\ fnRet' = <<RenderRow(fnArgs.row)>>
    /\ UNCHANGED <<fnArgs, appVars>>

TimestampCalls == [fn : {"timestamp"}, t : Timestamps]

\* The four views that print a timestamp, each applied to fnArgs.t
CallTimestamp ==
    /\ fnArgs.fn = "timestamp"
    /\ fnRet = <<>>
    /\ fnRet' = <<[historicalChart |-> HistoricalChartLabel(fnArgs.t),
                   historicalTable |-> TimestampCell(fnArgs.t),
                   forecastChart |-> ForecastChartLabel(fnArgs.t),
                   alertLine |-> AlertTimestampLine(fnArgs.t)]>>
    /\ UNCHANGED <<fnArgs, appVars>>

\* A historical row and a forecast point none of whose fields the backend sent
RowLackingFields ==
    [_time |-> JsUndefined, Phase3_power |-> JsUndefined,
     Phase3_voltage |-> JsUndefined, Phase3_frequency |-> JsUndefined,
     Phase3_pf |-> JsUndefined]
PointLackingFields == [timestamp |-> JsUndefined, predicted_power |-> JsUndefined]

\* Successful responses that lack the data their consumer expects
MalformedCalls ==
    [fn : {"malformed"}, endpoint : {"alerts", "performance"}, data : {JsNull, JsObject}]
    \cup [fn : {"malformed"}, endpoint : {"forecast"},
          data : {JsNull, JsObject, JsArray(<<PointLackingFields>>)}]
    \cup [fn : {"malformed"}, endpoint : {"historical"},
          data : {JsNull, JsObject, JsArray(<<RowLackingFields>>)}]

\* The response settles its query and the consumers of the query render
CallMalformed ==
    /\ fnArgs.fn = "malformed"
    /\ fnRet = <<>>
    /\ LET q == Settle(Fetch(InitialQuery, FALSE).state, Returned(fnArgs.data)).state
           data == q.data
       IN  fnRet' =
             <<[isError |-> isError(q),
                views |->
                  IF fnArgs.endpoint = "alerts"
                  THEN <<Returned(AlertsPanel(data, isLoading(q), isError(q))),
                         Returned(PeakLoadAlertCard(data, isLoading(q)).value),
                         Returned(IF hasCriticalAlerts(data) THEN "indicator" ELSE "")>>
                  ELSE IF fnArgs.endpoint = "performance"
                  THEN <<ModelReportPanel(data, isLoading(q), isError(q)),
                         KpiPerformanceValue(data, "fusion_mape"),
                         KpiPerformanceValue(data, "xgboost_mape"),
                         KpiPerformanceValue(data, "lstm_mape")>>
                  ELSE IF fnArgs.endpoint = "forecast"
                  THEN <<ForecastPanel(data, isLoading(q), isError(q))>>
                  ELSE <<HistoricalChartPanel(data, isLoading(q), isError(q), TRUE)>>]>>
    /\ UNCHANGED <<fnArgs, appVars>>

MaxSegLen == 3     \* characters of a query key element
MaxBaseLen == 2    \* characters of API_BASE_URL

\* Strings of at most n characters over '/' and a letter
Strings(n) == UNION {[1..m -> {"/", "a"}] : m \in 0..n}

\* Query keys of one or two elements; one element carries a query string
QueryKeys ==
    LET elements == Strings(MaxSegLen) \cup {<<"/", "a", "?", "a", "=", "a">>}
    IN  {<<e>> : e \in elements} \cup {<<e1, e2>> : e1, e2 \in elements}

UrlCalls == [fn : {"url"}, API_BASE_URL : Strings(MaxBaseLen), queryKey : QueryKeys]

\* getQueryFn builds the URL it requests
CallUrl ==
    /\ fnArgs.fn = "url"
    /\ fnRet = <<>>
    /\ fnRet' = <<[path |-> path(fnArgs.queryKey),
                   url |-> url(fnArgs.API_BASE_URL, fnArgs.queryKey)]>>
    /\ UNCHANGED <<fnArgs, appVars>>

InitFn ==
    /\ AppInit
    /\ fnRet = <<>>
    /\ \/ fnArgs \in QueryFnCalls
       \/ fnArgs \in PaginateCalls
       \/ fnArgs \in ChartCalls
       \/ fnArgs \in AlertsCalls
       \/ fnArgs \in TableRowCalls
       \/ fnArgs \in TimestampCalls
       \/ fnArgs \in MalformedCalls
       \/ fnArgs \in UrlCalls

NextFn ==
    \/ CallQueryFn
    \/ SettleQueryFn
    \/ CallPaginate
    \/ CallChartData
    \/ CallAlerts
    \/ CallRenderRow
    \/ CallTimestamp
    \/ CallMalformed
    \/ CallUrl

SpecFn == InitFn /\ [][NextFn]_vars

-----------------------------------------------------------------------------
(* SpecHistorical: HistoricalAnalysis while mounted, with results that have
   rows and the table's pagination *)

\* historicalData: the rows of the result cached under the selected range
historicalDataOf(q) ==
    IF q.data = Undefined THEN JsUndefined
    ELSE JsArray([i \in 1..RowCount(q.data) |-> HistoricalRow(i, JsNumber(100 * i))])

historicalData == historicalDataOf(cache[HistoricalKey])

\* The data table rendered for any result, an empty one included
TableShown_AnyResult(data) == Truthy(data)

\* {historicalData && historicalData.length > 0 && (<Card data-testid="card-data-table">
TableShown(data) == Truthy(data) /\ Len(data.items) > 0

\* {totalPages > 1 && (...)}, inside the table's card
PaginationShown(data) == TableShown(data) /\ totalPages(data) > 1

\* What the historical endpoint answers
HistoricalAnswers ==
    {Response(200, b, "") : b \in HistoricalBodies}
    \cup {Response(500, "Internal Server Error", "")}

\* HistoricalAnalysis has just been mounted (the Header's alerts GET is out)
InitHistorical ==
    /\ route = "/historical"
    /\ startDate = "2021-08-01"
    /\ endDate = "2021-08-17"
    /\ shouldFetch = FALSE
    /\ currentPage = 1
    /\ cache = [k \in Keys |-> IF k = AlertsKey THEN Fetch(InitialQuery, FALSE).state
                               ELSE InitialQuery]
    /\ sent = [NoneSent EXCEPT ![AlertsKey] = 1]
    /\ fnArgs = [fn |-> "none"]
    /\ fnRet = <<>>

\* The "Previous" button: setCurrentPage(p => Math.max(1, p - 1))
PreviousPage ==
    /\ route = "/historical"
    /\ PaginationShown(historicalData)
    /\ currentPage # 1
    /\ currentPage' = (IF currentPage - 1 > 1 THEN currentPage - 1 ELSE 1)
    /\ sent' = NoneSent
    /\ UNCHANGED <<route, startDate, endDate, shouldFetch, cache, fnVars>>

\* The "Next" button: setCurrentPage(p => Math.min(totalPages, p + 1))
NextPage ==
    /\ route = "/historical"
    /\ PaginationShown(historicalData)
    /\ currentPage # totalPages(historicalData)
    /\ currentPage' = (IF currentPage + 1 < totalPages(historicalData)
                       THEN currentPage + 1 ELSE totalPages(historicalData))
    /\ sent' = NoneSent
    /\ UNCHANGED <<route, startDate, endDate, shouldFetch, cache, fnVars>>

NextHistorical ==
    \/ \E d \in StartDates \cup {Undefined} : setStartDate(d)
    \/ \E d \in EndDates \cup {Undefined} : setEndDate(d)
    \/ handleRunAnalysis
    \/ \E k \in HistoricalKeys, answer \in HistoricalAnswers : Respond(k, answer)
    \/ PreviousPage
    \/ NextPage

SpecHistorical == InitHistorical /\ [][NextHistorical]_vars

-----------------------------------------------------------------------------
(* Claims about getQueryFn (SpecFn) *)

QueryFnRan == fnArgs.fn = "getQueryFn" /\ Len(fnRet) >= 1
QueryFnGotResponse == QueryFnRan /\ ~fnArgs.answer.failed

\* C4 as claimed: under the client's policy every non-success response makes
\* the query function throw an error whose message is "<status>: <body>", and
\* every success response makes it return the parsed JSON body.
C4_AsClaimed ==
    (QueryFnGotResponse /\ fnArgs.on401 = on401) =>
        LET res == fnArgs.answer
        IN  IF res.status >= 200 /\ res.status <= 299
            THEN fnRet[1].kind = "return" /\ fnRet[1].value = JsonParse(res.body)
            ELSE /\ fnRet[1].kind = "throw"
                 /\ fnRet[1].message = ToString(res.status) \o ": " \o res.body

\* C4 amended: a non-success response makes the query function throw an Error
\* whose message is "<status>: <text>", where text is the body, or the status
\* text when the body is empty; a success response makes it return the parsed
\* JSON body when the body is JSON, and throw the parser's SyntaxError when it
\* is not.
C4_QueryFnOutcome ==
    (QueryFnGotResponse /\ fnArgs.on401 = on401) =>
        LET res == fnArgs.answer
        IN  IF res.status >= 200 /\ res.status <= 299
            THEN IF res.body \in {"null", "{\"ok\":true}"}
                 THEN fnRet[1].kind = "return" /\ fnRet[1].value = JsonParse(res.body)
                 ELSE fnRet[1].kind = "throw" /\ fnRet[1].error = "SyntaxError"
            ELSE /\ fnRet[1].kind = "throw"
                 /\ fnRet[1].error = "Error"
                 /\ fnRet[1].message =
                        ToString(res.status) \o ": " \o
                        (IF res.body = "" THEN res.statusText ELSE res.body)

\* C4 witness: a non-success response with an empty body and a status text
\* has gone through the query function
C4_Witness ==
    /\ QueryFnGotResponse /\ fnArgs.on401 = on401
    /\ fnArgs.answer.status = 500
    /\ fnArgs.answer.body = ""
    /\ fnArgs.answer.statusText = "Internal Server Error"
    /\ fnRet[1].message = "500: Internal Server Error"

OtherPolicy(p) == IF p = "throw" THEN "returnNull" ELSE "throw"

\* C5: the 401 policy decides the outcome of a 401 response and of nothing
\* else: returnNull turns a 401 into null, throw turns it into an error, and
\* every other answer has the same outcome under both policies; the client is
\* built with "throw", so a 401 leaves the query with its error flag set.
C5_PolicyDecides401Only ==
    /\ on401 = "throw"
    /\ QueryFnRan =>
        IF ~fnArgs.answer.failed /\ fnArgs.answer.status = 401
        THEN /\ fnArgs.on401 = "returnNull" => fnRet[1] = Returned(Null)
             /\ fnArgs.on401 = "throw" => fnRet[1].kind = "throw"
             /\ (fnArgs.on401 = on401 /\ Len(fnRet) = 2) =>
                    fnRet[2].status = "error" /\ fnRet[2].data = Undefined
        ELSE fnRet[1] = getQueryFn(OtherPolicy(fnArgs.on401), fnArgs.answer)

\* C5 witness: a 401 has arrived at a query of the client and set its error flag
C5_Witness ==
    /\ fnArgs.fn = "getQueryFn" /\ Len(fnRet) = 2
    /\ fnArgs.on401 = "throw"
    /\ fnArgs.answer.status = 401
    /\ isError(fnRet[2])

-----------------------------------------------------------------------------
(* Claims about the query client and the pages (Spec) *)

\* A step that mounts a page
MountStep == route' # route

\* A step in which a calendar changed a date of HistoricalAnalysis
DateStep == route' = route /\ (startDate' # startDate \/ endDate' # endDate)

\* A step in which a refetchInterval timer fired
TimerStep == \E o \in MountedNow, focused \in BOOLEAN : RefetchIntervalTick(o, focused)

\* A step in which the fetch of key k failed
FailStep(k) ==
    /\ cache[k].fetchStatus = "fetching"
    /\ cache'[k] # cache[k]
    /\ \E answer \in Answers :
           Respond(k, answer) /\ getQueryFn(on401, answer).kind = "throw"

C2_AsClaimed ==
    [][handleRunAnalysis => sent'[HistoricalKey] = 1]_vars

\* C2 amended: a press of "Run Analysis" sends exactly one GET for the range
\* selected, except that a press made while the first fetch of that range
\* (no result cached yet) is in flight joins that fetch and sends none.
C2_OneGetPerPress ==
    [][handleRunAnalysis =>
          sent'[HistoricalKey] =
              IF /\ cache[HistoricalKey].fetchStatus = "fetching"
                 /\ cache[HistoricalKey].data = Undefined
              THEN 0 ELSE 1]_vars

\* C2 witness: a press on a range whose result is cached has sent one GET
C2_Witness ==
    /\ route = "/historical" /\ shouldFetch
    /\ cache[HistoricalKey].data # Undefined
    /\ cache[HistoricalKey].fetchStatus = "fetching"
    /\ sent[HistoricalKey] = 1

-----------------------------------------------------------------------------
(* HistoricalAnalysis as the state machine idle -> armed -> loaded | errored *)

HistoricalQuery == cache[HistoricalKey]

\* idle: mounted, "Run Analysis" not pressed yet
HistIdle == route = "/historical" /\ ~shouldFetch

\* armed: "Run Analysis" pressed and a fetch of the selected range in flight
HistArmed ==
    /\ route = "/historical" /\ shouldFetch
    /\ HistoricalQuery.fetchStatus = "fetching"

\* loaded: pressed, no fetch in flight, the selected range has its result
HistLoaded ==
    /\ route = "/historical" /\ shouldFetch
    /\ HistoricalQuery.fetchStatus = "idle"
    /\ HistoricalQuery.status = "success"

\* errored: pressed, no fetch in flight, the selected range is in error
HistErrored ==
    /\ route = "/historical" /\ shouldFetch
    /\ HistoricalQuery.fetchStatus = "idle"
    /\ HistoricalQuery.status = "error"

\* A step in which the fetch of the selected range completes
HistCompletion ==
    /\ HistoricalKey' = HistoricalKey
    /\ \E answer \in Answers : Respond(HistoricalKey, answer)

\* C7: HistoricalAnalysis is idle from its mount to the first press and sends
\* no GET to the historical endpoint while idle; loaded and errored are
\* entered only from armed, by the completion of the fetch; a press in loaded
\* or errored leads to armed.
C7_AsClaimed ==
    [][/\ (route # "/historical" /\ route' = "/historical") =>
              HistIdle' /\ \A k \in HistoricalKeys : sent'[k] = 0
       /\ (HistIdle /\ HistIdle') => \A k \in HistoricalKeys : sent'[k] = 0
       /\ (~HistLoaded /\ HistLoaded') => HistArmed /\ HistCompletion
       /\ (~HistErrored /\ HistErrored') => HistArmed /\ HistCompletion
       /\ ((HistLoaded \/ HistErrored) /\ handleRunAnalysis) => HistArmed']_vars

-----------------------------------------------------------------------------
(* Claims about the derived views (SpecFn) *)

Paginated == fnArgs.fn = "paginate" /\ Len(fnRet) = 1

Min(a, b) == IF a < b THEN a ELSE b

\* C8: for a result of N rows the page count is ceil(N / 10), page i of
\* 1..pageCount holds exactly the rows with indices (i-1)*10 .. min(i*10, N)-1
\* in source order, and a page beyond the last is empty.
C8_Pagination ==
    Paginated =>
        LET N == fnArgs.rows
            i == fnArgs.currentPage
            pages == fnRet[1].totalPages
            page == fnRet[1].paginatedData.items
            rows == fnRet[1].historicalData.items
            first == (i - 1) * 10
            last == Min(i * 10, N)
        IN  /\ pages * 10 >= N /\ (pages = 0 \/ (pages - 1) * 10 < N)
            /\ fnRet[1].paginatedData.type = "array"
            /\ i <= pages =>
                   /\ Len(page) = last - first
                   /\ \A j \in 1..Len(page) : page[j] = rows[first + j]
            /\ i > pages => page = <<>>

\* C8 witness: the third and last page of 25 rows holds rows 20..24
C8_Witness ==
    /\ Paginated
    /\ fnArgs.rows = 25 /\ fnArgs.currentPage = 3
    /\ fnRet[1].totalPages = 3
    /\ Len(fnRet[1].paginatedData.items) = 5
    /\ fnRet[1].paginatedData.items[1] = fnRet[1].historicalData.items[21]

AlertsRendered == fnArgs.fn = "alerts" /\ Len(fnRet) = 1

\* C9: an alerts response with a critical entry at any position shows the
\* header bell indicator and makes the "Peak Load Alert" card show "Active"
\* with alert styling; a response with no alerts shows "All Systems Normal",
\* no bell indicator and the card value "Normal".
C9_AsClaimed ==
    AlertsRendered =>
        /\ (\E i \in 1..Len(fnArgs.levels) : fnArgs.levels[i] = "critical") =>
               /\ fnRet[1].bell
               /\ fnRet[1].card.value = "Active"
               /\ fnRet[1].card.isAlert
        /\ fnArgs.levels = <<>> =>
               /\ fnRet[1].panel = "All Systems Normal"
               /\ ~fnRet[1].bell
               /\ fnRet[1].card.value = "Normal"

Charted == fnArgs.fn = "chartData" /\ Len(fnRet) = 1

PowerMissing(row) == row.Phase3_power.type \in {"undefined", "null"}

\* The position in the source of the row a chart point was made from
SourceIndex(point, rows) ==
    CHOOSE i \in 1..Len(rows) : rows[i]._time = point.fullTime

\* C10: a row whose Phase3_power is missing has no point in the chart series
\* (neither with power null nor with power 0), and the points of the series
\* are in source order.
C10_MissingPowerDropped ==
    Charted =>
        LET rows == fnRet[1].historicalData.items
            series == fnRet[1].chartData.items
        IN  /\ \A i \in 1..Len(rows) :
                   PowerMissing(rows[i]) =>
                       \A j \in 1..Len(series) : series[j].fullTime # rows[i]._time
            /\ \A j \in 1..Len(series) : series[j].power.type = "number"
            /\ \A a, b \in 1..Len(series) :
                   a < b => SourceIndex(series[a], rows) < SourceIndex(series[b], rows)

\* C10 witness: of three rows the middle one has no power; the series holds
\* the first and the third, in that order
C10_Witness ==
    /\ Charted
    /\ Len(fnArgs.powers) = 3
    /\ fnArgs.powers[1] = JsNumber(1234)
    /\ fnArgs.powers[2] = JsUndefined
    /\ fnArgs.powers[3] = JsNumber(4)
    /\ Len(fnRet[1].chartData.items) = 2
    /\ fnRet[1].chartData.items[1].power = JsNumber(1230)
    /\ fnRet[1].chartData.items[2].power = JsNumber(0)

-----------------------------------------------------------------------------
(* Claims about the per-row transforms (SpecFn) *)

RowRendered == fnArgs.fn = "tableRow" /\ Len(fnRet) = 1

FieldMissing(row, i) == row[NumericFields[i]].type \in {"undefined", "null"}

\* C11: for every historical row with a numeric field that is null or
\* undefined, rendering the row does not throw, the cell of each missing field
\* shows the placeholder glyph, and every other numeric cell shows its own
\* value.
C11_AsClaimed ==
    (RowRendered /\ \E i \in 1..4 : FieldMissing(fnArgs.row, i)) =>
        /\ fnRet[1].kind = "return"
        /\ \A i \in 1..4 :
               fnRet[1].value[i + 1] =
                   IF FieldMissing(fnArgs.row, i) THEN Placeholder
                   ELSE ToFixed(fnArgs.row[NumericFields[i]].val, FieldDigits[i])

TimestampRendered == fnArgs.fn = "timestamp" /\ Len(fnRet) = 1

\* C12: a timestamp that is absent or cannot be parsed renders as an empty
\* label and raises nothing, in the historical chart label, the historical
\* table's timestamp cell, the forecast chart label and the alert timestamp
\* line.
C12_AsClaimed ==
    (TimestampRendered /\ IsInvalidDate(fnArgs.t)) =>
        /\ fnRet[1].historicalChart = Returned("")
        /\ fnRet[1].historicalTable = Returned("")
        /\ fnRet[1].forecastChart = Returned("")
        /\ fnRet[1].alertLine = Returned("")

MalformedRendered == fnArgs.fn = "malformed" /\ Len(fnRet) = 1

\* The texts a consumer shows when it has no data
NoDataStates ==
    {"All Systems Normal", "Normal", "", Placeholder,
     "Unable to load performance metrics", "No forecast data available",
     "No data available for selected range"}

\* C13: a successful response that lacks the expected data is treated as "no
\* data": the query's error flag stays false, no consumer throws while
\* rendering, and each consumer shows its no-data state.
C13_AsClaimed ==
    MalformedRendered =>
        /\ ~fnRet[1].isError
        /\ \A i \in 1..Len(fnRet[1].views) :
               /\ fnRet[1].views[i].kind = "return"
               /\ fnRet[1].views[i].value \in NoDataStates

-----------------------------------------------------------------------------
(* Claims about the Dashboard's slots (Spec) *)

DashboardNow == Dashboard(cache[ForecastKey], cache[AlertsKey], cache[PerformanceKey])

\* C14: on the Dashboard, what is shown for each of the three queries depends
\* only on that query's own state: putting any other query states in the place
\* of the other two changes nothing of it; a slot shows its skeleton exactly
\* while its own query is loading and its error text exactly when its own
\* query is in error and not loading.
C14_IndependentSlots ==
    route = "/" =>
        /\ \A q1, q2 \in {cache[k] : k \in Keys} :
               /\ Dashboard(cache[ForecastKey], q1, q2).forecast = DashboardNow.forecast
               /\ Dashboard(q1, cache[AlertsKey], q2).alerts = DashboardNow.alerts
               /\ Dashboard(q1, q2, cache[PerformanceKey]).performance
                      = DashboardNow.performance
        /\ DashboardNow.forecast.value = "Skeleton" <=> isLoading(cache[ForecastKey])
        /\ DashboardNow.forecast.value = "Unable to load forecast data"
               <=> (isError(cache[ForecastKey]) /\ ~isLoading(cache[ForecastKey]))
        /\ DashboardNow.alerts[1].value = "Skeleton" <=> isLoading(cache[AlertsKey])
        /\ DashboardNow.alerts[1].value = "Unable to load alerts"
               <=> (isError(cache[AlertsKey]) /\ ~isLoading(cache[AlertsKey]))
        /\ DashboardNow.performance["fusion_mape"].value = "Skeleton"
               <=> isLoading(cache[PerformanceKey])

\* C14 witness: the forecast has failed, the alerts have arrived and the
\* performance figures are still loading: the Dashboard shows the error text,
\* the alerts list and a skeleton side by side
C14_Witness ==
    /\ route = "/"
    /\ isError(cache[ForecastKey])
    /\ cache[AlertsKey].status = "success"
    /\ isLoading(cache[PerformanceKey])
    /\ DashboardNow.forecast.value = "Unable to load forecast data"
    /\ DashboardNow.alerts[1].value = "alerts list"
    /\ DashboardNow.performance["lstm_mape"].value = "Skeleton"

-----------------------------------------------------------------------------
(* Claims about the table of HistoricalAnalysis (SpecHistorical) *)

\* C15: while the result of the selected range has zero points, or there is
\* no result, neither the data table nor the pagination controls are
\* rendered; the pagination controls are rendered only when the table is
\* rendered and the page count is greater than 1.
C15_EmptyResultNoTable ==
    /\ (historicalData.type = "undefined" \/ Len(historicalData.items) = 0) =>
           ~TableShown(historicalData) /\ ~PaginationShown(historicalData)
    /\ PaginationShown(historicalData) =>
           TableShown(historicalData) /\ totalPages(historicalData) > 1
    /\ (historicalData.type = "array" /\ Len(historicalData.items) > 0) =>
           TableShown(historicalData)

\* C15 witness: "Run Analysis" was pressed and the result that arrived has no
\* rows: no table and no pagination controls
C15_Witness ==
    /\ route = "/historical" /\ shouldFetch
    /\ cache[HistoricalKey].status = "success"
    /\ cache[HistoricalKey].fetchStatus = "idle"
    /\ historicalData = JsArray(<<>>)
    /\ ~TableShown(historicalData)
    /\ ~PaginationShown(historicalData)

\* C16: whenever the data table is shown, 1 <= currentPage <= totalPages.
C16_AsClaimed ==
    TableShown(historicalData) =>
        1 <= currentPage /\ currentPage <= totalPages(historicalData)

\* C17: a GET to the historical endpoint is sent only by a press of "Run
\* Analysis": shouldFetch is never reset while the page is mounted, and yet a
\* change of the start or end date after the first press sends no GET for the
\* new range.
C17_AsClaimed ==
    [][/\ \A k \in HistoricalKeys : sent'[k] > 0 => handleRunAnalysis
       /\ (shouldFetch /\ route' = route) => shouldFetch'
       /\ (shouldFetch /\ DateStep) => \A k \in HistoricalKeys : sent'[k] = 0]_vars

-----------------------------------------------------------------------------
(* Claims about the URL getQueryFn requests (SpecFn) *)

UrlBuilt == fnArgs.fn = "url" /\ Len(fnRet) = 1

Slashes(n) == [i \in 1..n |-> "/"]

\* t is s without its trailing slashes
IsWithoutTrailing(t, s) ==
    /\ Len(t) = 0 \/ t[Len(t)] # "/"
    /\ \E j \in 0..Len(s) : s = t \o Slashes(j)

\* t is s without its leading and trailing slashes
IsTrimmed(t, s) ==
    /\ Len(t) = 0 \/ (t[1] # "/" /\ t[Len(t)] # "/")
    /\ \E i, j \in 0..Len(s) : s = Slashes(i) \o t \o Slashes(j)

\* The URL is the base without its trailing slashes followed by a path that
\* starts with '/'; the path of a one-element key is the element, with a '/'
\* put in front only when it has none; the path of a key of several elements
\* is '/' and the trimmed elements joined by '/'
UrlAsDescribed ==
    LET key == fnArgs.queryKey
        p == fnRet[1].path
        base == SubSeq(fnRet[1].url, 1, Len(fnRet[1].url) - Len(p))
    IN  /\ Len(fnRet[1].url) >= Len(p)
        /\ fnRet[1].url = base \o p
        /\ IsWithoutTrailing(base, fnArgs.API_BASE_URL)
        /\ Len(p) > 0 /\ p[1] = "/"
        /\ Len(key) = 1 =>
               p = IF Len(key[1]) > 0 /\ key[1][1] = "/" THEN key[1] ELSE <<"/">> \o key[1]
        /\ Len(key) = 2 =>
               \E n \in 0..Len(p) - 2 :
                   /\ p[n + 2] = "/"
                   /\ IsTrimmed(SubSeq(p, 2, n + 1), key[1])
                   /\ IsTrimmed(SubSeq(p, n + 3, Len(p)), key[2])

\* The path begins with two slashes, which doubles the slash where base and
\* path meet
JunctionDoubled == Len(fnRet[1].path) >= 2 /\ fnRet[1].path[2] = "/"

\* C18 as claimed: the URL is built as described and the junction of base and
\* path never contains a doubled slash.
C18_AsClaimed == UrlBuilt => (UrlAsDescribed /\ ~JunctionDoubled)

\* C18 amended: the URL is built as described; the junction of base and path
\* contains a doubled slash exactly when the one element of the key begins
\* with two slashes, or the key has several elements and its first element is
\* empty or made of slashes only.
C18_UrlNormalized ==
    UrlBuilt =>
        /\ UrlAsDescribed
        /\ JunctionDoubled <=>
               LET key == fnArgs.queryKey
               IN  IF Len(key) = 1
                   THEN Len(key[1]) >= 2 /\ key[1][1] = "/" /\ key[1][2] = "/"
                   ELSE \A i \in 1..Len(key[1]) : key[1][i] = "/"

\* C18 witness: base "a/" and the key ['/a/', 'a'] give the URL "a/a/a"
C18_Witness ==
    /\ UrlBuilt
    /\ fnArgs.API_BASE_URL = <<"a", "/">>
    /\ fnArgs.queryKey = << <<"/", "a", "/">>, <<"a">> >>
    /\ fnRet[1].url = <<"a", "/", "a", "/", "a">>

-----------------------------------------------------------------------------
(* Claims about the chart series and the value 0 (SpecFn) *)

\* C19: every row whose Phase3_power is a number, 0 included, has exactly one
\* point in the chart series, with the power rounded to one decimal; only the
\* rows whose Phase3_power is missing are dropped, so the series is as long as
\* the rows with a numeric Phase3_power are many.
C19_AsClaimed ==
    Charted =>
        LET rows == fnRet[1].historicalData.items
            series == fnRet[1].chartData.items
            numeric == {i \in 1..Len(rows) : rows[i].Phase3_power.type = "number"}
        IN  /\ Len(series) = Cardinality(numeric)
            /\ \A i \in numeric :
                   /\ Cardinality({j \in 1..Len(series) :
                                      series[j].fullTime = rows[i]._time}) = 1
                   /\ \A j \in 1..Len(series) :
                          series[j].fullTime = rows[i]._time =>
                              series[j].power =
                                  JsNumber(((rows[i].Phase3_power.val + 5) \div 10) * 10)

=============================================================================
